---- MODULE Spec2Model ----
(***************************************************************************)
(* Model of the SQL Query Generator: the Streamlit chat application        *)
(* (src/src/app.py), the storage helpers it calls                          *)
(* (src/src/database_handler.py) and the intent extractor                  *)
(* (src/src/Query_prepocessor.py).                                         *)
(*                                                                         *)
(* A Python string is a sequence of tokens (a token stands for one         *)
(* character or for an indivisible run of characters such as a command     *)
(* word), so that split, strip, startswith, endswith and isnumeric are     *)
(* computed the way Python computes them.                                  *)
(***************************************************************************)
EXTENDS Integers, Sequences, FiniteSets, TLC

VARIABLES
    \* ---- the intent extractor (Query_prepocessor.py)
    nl_query,       \* the argument of preprocess_query_with_gemini
    gemini,         \* what the language-model service does when called
    returned,       \* the outcome of the call (NoResult before it ran)
    service_calls,  \* number of generate_content calls made
    \* ---- the chat application (app.py) and the data/ directory
    selected_db,    \* st.session_state.selected_db
    chat_history,   \* st.session_state.chat_history
    files,          \* the files of data/: name -> database content
    widgets,        \* the widgets the last script run drew, with their values
    last_run,       \* what the last script run received and did
    \* ---- the storage helpers (database_handler.py, SQL_Connector.py)
    connections,    \* number of connections that were opened and not closed
    storage_call    \* the last direct call of a storage helper and its outcome

app_vars == <<selected_db, chat_history, files, widgets, last_run>>
extract_vars == <<nl_query, gemini, returned, service_calls>>
vars == <<extract_vars, app_vars, connections, storage_call>>

----------------------------------------------------------------------------
(* Python values and outcomes *)

Str(s) == [t |-> "str", v |-> s]
Num(s) == [t |-> "num", v |-> s]
Bool(b) == [t |-> "bool", v |-> <<b>>]
None == [t |-> "null", v |-> <<>>]
List(l) == [t |-> "list", v |-> l]
Dict(f) == [t |-> "obj", v |-> f]

Return(x) == [tag |-> "return", val |-> x, exc |-> "", msg |-> <<>>]
Raise(e, m) == [tag |-> "raise", val |-> None, exc |-> e, msg |-> m]
NoResult == [tag |-> "pending", val |-> None, exc |-> "", msg |-> <<>>]

\* The exception classes that occur, each with its base class.
BaseOf(e) ==
    CASE e = "JSONDecodeError" -> "ValueError"
      [] e = "Exception" -> "BaseException"
      [] OTHER -> "Exception"

RECURSIVE IsInstance(_, _)
IsInstance(e, cls) ==
    IF e = cls THEN TRUE
    ELSE IF e = "BaseException" THEN FALSE
    ELSE IsInstance(BaseOf(e), cls)

TypeName(x) ==
    CASE x.t = "str" -> "str"
      [] x.t = "num" -> "int"
      [] x.t = "bool" -> "bool"
      [] x.t = "null" -> "NoneType"
      [] x.t = "list" -> "list"
      [] x.t = "obj" -> "dict"

----------------------------------------------------------------------------
(* str.isnumeric *)

DigitChars == {"1", "2", "3", "7"}
\* Characters with the Unicode Numeric property that are no decimal digits,
\* such as U+00BD VULGAR FRACTION ONE HALF.
OtherNumericChars == {"U+00BD"}
NumericChars == DigitChars \cup OtherNumericChars

isnumeric(s) == Len(s) > 0 /\ \A i \in 1..Len(s) : s[i] \in NumericChars

----------------------------------------------------------------------------
(* The intent extractor: preprocess_query_with_gemini *)

UnstructuredMsg == <<"Unstructured response from Gemini Pro. Please try again.">>
InvalidEntityPrefix == <<"Invalid entity in response: ">>
NumericEntityMsg == <<"Invalid entity detected (numeric value in entities).">>

ErrorDict(m) == Dict([k \in {"error"} |-> Str(m)])

Fields == {"intent", "entities", "conditions", "aggregations", "time_range", "limit"}

\* dict.get(key, default)
get(d, key, default) == IF key \in DOMAIN d.v THEN d.v[key] ELSE default

\* json.loads(text): the text of a response is either the serialisation of a
\* JSON value, or that serialisation wrapped in a Markdown code fence, or
\* prose; only the first parses.
json_loads(text) ==
    IF text.kind = "json" THEN Return(text.value)
    ELSE Raise("JSONDecodeError", <<"Expecting value: line 1 column 1 (char 0)">>)

\* Iterating a Python value: the items of a list, the characters of a string.
iter(x) ==
    CASE x.t = "list" -> Return(List(x.v))
      [] x.t = "str" -> Return(List([i \in 1..Len(x.v) |-> Str(<<x.v[i]>>)]))
      [] OTHER -> Raise("TypeError", <<"'", TypeName(x), "' object is not iterable">>)

\* any(entity.isnumeric() for entity in items), from item i on: any() stops at
\* the first true item, and an item without isnumeric raises when reached.
RECURSIVE any_isnumeric(_, _)
any_isnumeric(items, i) ==
    IF i > Len(items) THEN Return(Bool("False"))
    ELSE IF items[i].t # "str"
        THEN Raise("AttributeError",
                   <<"'", TypeName(items[i]), "' object has no attribute 'isnumeric'">>)
    ELSE IF isnumeric(items[i].v) THEN Return(Bool("True"))
    ELSE any_isnumeric(items, i + 1)

\* Lines 60-63: the validation of the decoded value.
validate_entities(preprocessed_query) ==
    IF preprocessed_query.t # "obj"
    THEN Raise("AttributeError",
               <<"'", TypeName(preprocessed_query), "' object has no attribute 'get'">>)
    ELSE LET entities == iter(get(preprocessed_query, "entities", List(<<>>)))
             found == any_isnumeric(entities.val.v, 1)
         IN  IF entities.tag = "raise" THEN entities
             ELSE IF found.tag = "raise" THEN found
             ELSE IF found.val = Bool("True") THEN Raise("ValueError", NumericEntityMsg)
             ELSE Return(preprocessed_query)

\* Lines 56-69: the inner try with its two handlers, in the order written.
parse_response(structured_output) ==
    LET decoded == json_loads(structured_output)
        body == IF decoded.tag = "raise" THEN decoded ELSE validate_entities(decoded.val)
    IN  IF body.tag = "return" THEN body
        ELSE IF IsInstance(body.exc, "JSONDecodeError") THEN Return(ErrorDict(UnstructuredMsg))
        ELSE IF IsInstance(body.exc, "ValueError")
            THEN Return(ErrorDict(InvalidEntityPrefix \o body.msg))
        ELSE body

\* Lines 44-73: the outer try; whatever escapes the inner one, and whatever
\* the service call raises, is returned as {"error": str(e)}.
preprocess(query, service) ==
    LET body == IF service.kind = "raise" THEN Raise(service.exc, service.msg)
                ELSE parse_response(service.text)
    IN  IF body.tag = "return" THEN body
        ELSE IF IsInstance(body.exc, "Exception") THEN Return(ErrorDict(body.msg))
        ELSE body

----------------------------------------------------------------------------
(* The inputs of the extractor: queries and behaviours of the service *)

MaxEntities == 2

SeqsUpTo(S, n) == UNION {[1..k -> S] : k \in 0..n}

Absent == [t |-> "absent", v |-> <<>>]

EntityEntries ==
    {Str(<<"users">>), Str(<<"1", "2", "3">>), Str(<<"U+00BD">>), Str(<<>>), Num(<<"7">>)}
EntitiesOpts ==
    {Absent, None, Num(<<"7">>), Str(<<"1", "2">>), Str(<<"a", "b">>)}
        \cup {List(l) : l \in SeqsUpTo(EntityEntries, MaxEntities)}
IntentOpts == {Absent, Str(<<"select">>), Num(<<"7">>)}
ConditionsOpts == {Absent, List(<<Str(<<"age > 30">>)>>), Str(<<"age > 30">>)}
AggregationsOpts == {Absent, List(<<>>), None}
TimeRangeOpts == {Absent, Str(<<"last month">>), None, Num(<<"7">>)}
LimitOpts == {Absent, Num(<<"5">>), None, Str(<<"5">>)}

Record(i, e, c, a, r, l) ==
    LET all == [f \in Fields |->
                    CASE f = "intent" -> i
                      [] f = "entities" -> e
                      [] f = "conditions" -> c
                      [] f = "aggregations" -> a
                      [] f = "time_range" -> r
                      [] f = "limit" -> l]
        present == {f \in Fields : all[f] # Absent}
    IN  Dict([f \in present |-> all[f]])

Records ==
    {Record(i, e, c, a, r, l) : i \in IntentOpts, e \in EntitiesOpts, c \in ConditionsOpts,
                                a \in AggregationsOpts, r \in TimeRangeOpts, l \in LimitOpts}

JsonValues ==
    Records \cup {List(<<>>), List(<<Str(<<"users">>)>>), Str(<<"select">>), Num(<<"7">>), None}

FullRecord ==
    Record(Str(<<"select">>), List(<<Str(<<"users">>)>>), List(<<Str(<<"age > 30">>)>>),
           List(<<>>), None, Num(<<"5">>))

Texts ==
    {[kind |-> "json", value |-> x] : x \in JsonValues}
        \cup {[kind |-> "fenced", value |-> FullRecord],
              [kind |-> "prose", value |-> Str(<<"Sure! Here is the JSON you asked for">>)],
              [kind |-> "prose", value |-> Str(<<>>)]}

ServiceErrors ==
    {[kind |-> "raise", exc |-> "ResourceExhausted", msg |-> <<"429 Resource has been exhausted">>,
      text |-> [kind |-> "none", value |-> None]],
     [kind |-> "raise", exc |-> "Unauthenticated", msg |-> <<"401 API key not valid">>,
      text |-> [kind |-> "none", value |-> None]],
     [kind |-> "raise", exc |-> "ServiceUnavailable", msg |-> <<"503 failed to connect">>,
      text |-> [kind |-> "none", value |-> None]]}

ServiceBehaviours ==
    ServiceErrors \cup {[kind |-> "respond", exc |-> "", msg |-> <<>>, text |-> x] : x \in Texts}

EmptyQuery == <<>>
Queries == {EmptyQuery, <<"Show all employees over the age of 30.">>}

----------------------------------------------------------------------------
(* Python string and dict operations used by app.py *)

\* str.split() with no argument: the maximal runs of non-blank tokens.
RECURSIVE split_from(_, _, _, _)
split_from(s, i, cur, out) ==
    IF i > Len(s) THEN (IF cur = <<>> THEN out ELSE Append(out, cur))
    ELSE IF s[i] = " "
        THEN split_from(s, i + 1, <<>>, IF cur = <<>> THEN out ELSE Append(out, cur))
    ELSE split_from(s, i + 1, Append(cur, s[i]), out)

split(s) == split_from(s, 1, <<>>, <<>>)

\* str.split(sep): every separator ends a piece, empty pieces are kept.
RECURSIVE split_on_from(_, _, _, _, _)
split_on_from(s, sep, i, cur, out) ==
    IF i > Len(s) THEN Append(out, cur)
    ELSE IF s[i] = sep THEN split_on_from(s, sep, i + 1, <<>>, Append(out, cur))
    ELSE split_on_from(s, sep, i + 1, Append(cur, s[i]), out)

split_on(s, sep) == split_on_from(s, sep, 1, <<>>, <<>>)

\* str.strip()
RECURSIVE strip(_)
strip(s) ==
    IF s = <<>> THEN s
    ELSE IF Head(s) = " " THEN strip(Tail(s))
    ELSE IF s[Len(s)] = " " THEN strip(SubSeq(s, 1, Len(s) - 1))
    ELSE s

startswith(s, prefix) == Len(s) >= Len(prefix) /\ SubSeq(s, 1, Len(prefix)) = prefix
endswith(s, suffix) ==
    Len(s) >= Len(suffix) /\ SubSeq(s, Len(s) - Len(suffix) + 1, Len(s)) = suffix

\* zip(a, b): pairs up to the shorter of the two.
zip(a, b) == [i \in 1..(IF Len(a) < Len(b) THEN Len(a) ELSE Len(b)) |-> <<a[i], b[i]>>]

\* A dict is the sequence of its (key, value) pairs in insertion order.
dict_put(d, k, x) ==
    IF \E j \in 1..Len(d) : d[j][1] = k
    THEN [j \in 1..Len(d) |-> IF d[j][1] = k THEN <<k, x>> ELSE d[j]]
    ELSE Append(d, <<k, x>>)

RECURSIVE dict_from(_, _, _)
dict_from(pairs, i, d) ==
    IF i > Len(pairs) THEN d
    ELSE dict_from(pairs, i + 1, dict_put(d, pairs[i][1], pairs[i][2]))

\* dict(list of tuples): every tuple must have exactly two elements.
dict(pairs) ==
    IF \E i \in 1..Len(pairs) : Len(pairs[i]) # 2
    THEN Raise("ValueError", <<"dictionary update sequence element has the wrong length; 2 is required">>)
    ELSE Return(dict_from(pairs, 1, <<>>))

----------------------------------------------------------------------------
(* The storage helpers of database_handler.py.  A database file is the      *)
(* sequence of its tables in creation order; a table has a name, its        *)
(* columns in declared order and its rows; a row maps every column to a     *)
(* value.  Every helper returns the files of data/ after it and its outcome.*)

EmptyDatabase == <<>>
NULL == None

\* A helper that ran to its end has closed its connection; one that left
\* before its conn.close() leaves the connection open behind it.
Done(f, out) == [files |-> f, out |-> out, open |-> 0]
Left(f, out) == [files |-> f, out |-> out, open |-> 1]

\* os.path.join('data', db_name)
join_data(db_name) == <<"data/">> \o db_name

\* sqlite3.connect(db_path), for a path in data/: creates a missing file.
connect(f, db_path) ==
    LET name == Tail(db_path)
    IN  IF name \in DOMAIN f THEN f
        ELSE [n \in DOMAIN f \cup {name} |-> IF n = name THEN EmptyDatabase ELSE f[n]]

create_connection(f, db_name) == connect(f, join_data(db_name))

has_table(db, table_name) == \E i \in 1..Len(db) : db[i].name = table_name
table_index(db, table_name) == CHOOSE i \in 1..Len(db) : db[i].name = table_name
column_names(tbl) == {tbl.columns[i][1] : i \in 1..Len(tbl.columns)}
column_type(tbl, c) == tbl.columns[CHOOSE i \in 1..Len(tbl.columns) : tbl.columns[i][1] = c][2]

\* An identifier put into the statement text: SQL ignores the blanks around it.
is_column(tbl, key) == Len(split(key)) = 1 /\ strip(key) \in column_names(tbl)

NoSuchTable(table_name) == Raise("OperationalError", <<"no such table: ">> \o table_name)
NoSuchColumn == Raise("OperationalError", <<"no such column">>)
SyntaxError == Raise("OperationalError", <<"syntax error">>)

\* The type affinity of a column: an INTEGER column stores a text of digits
\* as the integer, a TEXT column stores a number as its text.
affinity(type, x) ==
    IF type = <<"INTEGER">> /\ x.t = "str" /\ x.v # <<>>
           /\ (\A i \in 1..Len(x.v) : x.v[i] \in DigitChars)
        THEN Num(x.v)
    ELSE IF type = <<"TEXT">> /\ x.t = "num" THEN Str(x.v)
    ELSE x

\* The value a dict of column -> value holds for column c.
value_for(d, c) == d[CHOOSE j \in 1..Len(d) : strip(d[j][1]) = c][2]
names(d) == {strip(d[j][1]) : j \in 1..Len(d)}

\* A row satisfies "c1 = ? AND c2 = ? ..." when it equals every value: NULL
\* equals nothing, and a value is compared after the affinity of the column
\* is applied to it.
matches(tbl, row, condition) ==
    \A j \in 1..Len(condition) :
        /\ row[strip(condition[j][1])] # NULL
        /\ condition[j][2] # NULL
        /\ row[strip(condition[j][1])] =
               affinity(column_type(tbl, strip(condition[j][1])), condition[j][2])

\* The statements the helpers build, and the ones passed as text to
\* read_sql_query and run_sql_query.
Statement(verb, table_name) ==
    [verb |-> verb, table |-> table_name, columns |-> <<>>, data |-> <<>>,
     where_clause |-> FALSE, where |-> <<>>, returning |-> FALSE, if_not_exists |-> FALSE]
CreateTableIfNotExists(table_name, columns) ==
    [Statement("CREATE TABLE", table_name) EXCEPT !.columns = columns, !.if_not_exists = TRUE]
InsertInto(table_name, data) == [Statement("INSERT", table_name) EXCEPT !.data = data]
UpdateWhere(table_name, data, condition) ==
    [Statement("UPDATE", table_name) EXCEPT !.data = data, !.where_clause = TRUE,
                                            !.where = condition]
DeleteWhere(table_name, condition) ==
    [Statement("DELETE", table_name) EXCEPT !.where_clause = TRUE, !.where = condition]
SelectAll(table_name) == Statement("SELECT", table_name)

\* What cursor.execute leaves: the content of the database as the connection
\* sees it, whether the statement opened a transaction (sqlite3 begins one
\* before INSERT, UPDATE and DELETE and before nothing else), and the row set
\* (cursor.description is None for a statement without one).
Executed(db, writes, rowset, cols, rows) ==
    [db |-> db, out |-> Return(None), writes |-> writes, rowset |-> rowset,
     description |-> cols, rows |-> rows]
Failed(db, err) ==
    [db |-> db, out |-> err, writes |-> FALSE, rowset |-> FALSE, description |-> <<>>,
     rows |-> <<>>]

description(tbl) == [c \in 1..Len(tbl.columns) |-> tbl.columns[c][1]]
tuples(tbl, rows) ==
    [r \in 1..Len(rows) |-> [c \in 1..Len(tbl.columns) |-> rows[r][tbl.columns[c][1]]]]

\* Some key of the dict d names no column of the table.
unknown_column(tbl, d) == \E j \in 1..Len(d) : ~is_column(tbl, d[j][1])

execute_create(db, stmt) ==
    IF stmt.columns = <<>> THEN Failed(db, SyntaxError)
    ELSE IF has_table(db, stmt.table)
        THEN (IF stmt.if_not_exists THEN Executed(db, FALSE, FALSE, <<>>, <<>>)
              ELSE Failed(db, Raise("OperationalError",
                                    <<"table ">> \o stmt.table \o <<" already exists">>)))
    ELSE Executed(Append(db, [name |-> stmt.table, columns |-> stmt.columns, rows |-> <<>>]),
                  FALSE, FALSE, <<>>, <<>>)

execute_insert(db, stmt) ==
    LET i == table_index(db, stmt.table)
        row == [c \in column_names(db[i]) |->
                   IF c \in names(stmt.data)
                   THEN affinity(column_type(db[i], c), value_for(stmt.data, c))
                   ELSE NULL]
    IN  IF stmt.data = <<>> THEN Failed(db, SyntaxError)
        ELSE IF ~has_table(db, stmt.table) THEN Failed(db, NoSuchTable(stmt.table))
        ELSE IF unknown_column(db[i], stmt.data) THEN Failed(db, NoSuchColumn)
        ELSE Executed([db EXCEPT ![i].rows = Append(@, row)], TRUE, stmt.returning,
                      IF stmt.returning THEN description(db[i]) ELSE <<>>,
                      IF stmt.returning THEN tuples(db[i], <<row>>) ELSE <<>>)

execute_update(db, stmt) ==
    LET i == table_index(db, stmt.table)
        set(row) == [c \in DOMAIN row |->
                        IF c \in names(stmt.data)
                        THEN affinity(column_type(db[i], c), value_for(stmt.data, c))
                        ELSE row[c]]
        rows == [r \in 1..Len(db[i].rows) |->
                    IF matches(db[i], db[i].rows[r], stmt.where)
                    THEN set(db[i].rows[r]) ELSE db[i].rows[r]]
    IN  IF stmt.data = <<>> \/ (stmt.where_clause /\ stmt.where = <<>>)
        THEN Failed(db, SyntaxError)
        ELSE IF ~has_table(db, stmt.table) THEN Failed(db, NoSuchTable(stmt.table))
        ELSE IF unknown_column(db[i], stmt.data) \/ unknown_column(db[i], stmt.where) THEN Failed(db, NoSuchColumn)
        ELSE Executed([db EXCEPT ![i].rows = rows], TRUE, FALSE, <<>>, <<>>)

execute_delete(db, stmt) ==
    LET i == table_index(db, stmt.table)
        gone == SelectSeq(db[i].rows, LAMBDA row : matches(db[i], row, stmt.where))
        kept == SelectSeq(db[i].rows, LAMBDA row : ~matches(db[i], row, stmt.where))
    IN  IF stmt.where_clause /\ stmt.where = <<>> THEN Failed(db, SyntaxError)
        ELSE IF ~has_table(db, stmt.table) THEN Failed(db, NoSuchTable(stmt.table))
        ELSE IF unknown_column(db[i], stmt.where) THEN Failed(db, NoSuchColumn)
        ELSE Executed([db EXCEPT ![i].rows = kept], TRUE, stmt.returning,
                      IF stmt.returning THEN description(db[i]) ELSE <<>>,
                      IF stmt.returning THEN tuples(db[i], gone) ELSE <<>>)

execute_select(db, stmt) ==
    LET i == table_index(db, stmt.table)
        found == SelectSeq(db[i].rows, LAMBDA row : matches(db[i], row, stmt.where))
    IN  IF stmt.where_clause /\ stmt.where = <<>> THEN Failed(db, SyntaxError)
        ELSE IF ~has_table(db, stmt.table) THEN Failed(db, NoSuchTable(stmt.table))
        ELSE IF unknown_column(db[i], stmt.where) THEN Failed(db, NoSuchColumn)
        ELSE Executed(db, FALSE, TRUE, description(db[i]), tuples(db[i], found))

\* cursor.execute(statement) on the content db.
execute(db, stmt) ==
    CASE stmt.verb = "CREATE TABLE" -> execute_create(db, stmt)
      [] stmt.verb = "INSERT" -> execute_insert(db, stmt)
      [] stmt.verb = "UPDATE" -> execute_update(db, stmt)
      [] stmt.verb = "DELETE" -> execute_delete(db, stmt)
      [] stmt.verb = "SELECT" -> execute_select(db, stmt)
      [] OTHER -> Failed(db, SyntaxError)

\* conn.commit() followed by conn.close(): the file holds what was executed.
commit(f, db_name, e) == [f EXCEPT ![db_name] = e.db]
\* conn.close() without a commit: an open transaction is rolled back; what
\* ran outside a transaction is in the file already.
close(f, db_name, e) == IF e.writes THEN f ELSE [f EXCEPT ![db_name] = e.db]

list_databases(f) == {db \in DOMAIN f : endswith(db, <<".db">>)}

database_exists(f, db_name) == db_name \in DOMAIN f

create_new_database(f, db_name) ==
    IF db_name \in DOMAIN f THEN Done(f, Return(None))
    ELSE Done(create_connection(f, db_name), Return(None))

list_tables(f, db_name) ==
    LET f1 == create_connection(f, db_name)
    IN  Done(f1, Return([i \in 1..Len(f1[db_name]) |-> f1[db_name][i].name]))

create_table(f, db_name, table_name, columns) ==
    LET f1 == create_connection(f, db_name)
        e == execute(f1[db_name], CreateTableIfNotExists(table_name, columns))
    IN  IF e.out.tag = "raise" THEN Left(f1, e.out)
        ELSE Done(commit(f1, db_name, e), Return(None))

\* insert_record without conn.commit().
insert_record_uncommitted(f, db_name, table_name, data) ==
    LET f1 == create_connection(f, db_name)
        e == execute(f1[db_name], InsertInto(table_name, data))
    IN  IF e.out.tag = "raise" THEN Left(f1, e.out)
        ELSE Done(close(f1, db_name, e), Return(None))

insert_record(f, db_name, table_name, data) ==
    LET f1 == create_connection(f, db_name)
        e == execute(f1[db_name], InsertInto(table_name, data))
    IN  IF e.out.tag = "raise" THEN Left(f1, e.out)
        ELSE Done(commit(f1, db_name, e), Return(None))

update_record(f, db_name, table_name, data, condition) ==
    LET f1 == create_connection(f, db_name)
        e == execute(f1[db_name], UpdateWhere(table_name, data, condition))
    IN  IF e.out.tag = "raise" THEN Left(f1, e.out)
        ELSE Done(commit(f1, db_name, e), Return(None))

\* delete_record with a WHERE clause made of the first pair only.
delete_record_first_pair(f, db_name, table_name, condition) ==
    LET f1 == create_connection(f, db_name)
        e == execute(f1[db_name],
                     DeleteWhere(table_name,
                                 IF condition = <<>> THEN condition ELSE <<Head(condition)>>))
    IN  IF e.out.tag = "raise" THEN Left(f1, e.out)
        ELSE Done(commit(f1, db_name, e), Return(None))

delete_record(f, db_name, table_name, condition) ==
    LET f1 == create_connection(f, db_name)
        e == execute(f1[db_name], DeleteWhere(table_name, condition))
    IN  IF e.out.tag = "raise" THEN Left(f1, e.out)
        ELSE Done(commit(f1, db_name, e), Return(None))

read_records(f, db_name, table_name) ==
    LET f1 == create_connection(f, db_name)
        e == execute(f1[db_name], SelectAll(table_name))
    IN  IF e.out.tag = "raise" THEN Left(f1, e.out)
        ELSE Done(close(f1, db_name, e), Return(e.rows))

read_sql_query(f, db_name, sql_query) ==
    LET f1 == create_connection(f, db_name)
        e == execute(f1[db_name], sql_query)
    IN  IF e.out.tag = "raise" THEN Left(f1, e.out)
        ELSE Done(close(f1, db_name, e), Return(e.rows))

\* PRAGMA table_info(table): one row (cid, name, type) per column, in
\* declared order; no row for a table that does not exist.
table_info(db, table_name) ==
    IF ~has_table(db, table_name) THEN <<>>
    ELSE LET tbl == db[table_index(db, table_name)]
         IN  [c \in 1..Len(tbl.columns) |-> <<c - 1, tbl.columns[c][1], tbl.columns[c][2]>>]

get_table_structure(f, db_name, table_name) ==
    LET f1 == create_connection(f, db_name)
    IN  Done(f1, Return(table_info(f1[db_name], table_name)))

\* get_db_schema that stops after the first table.
get_db_schema_first_table(f, db_name) ==
    LET f1 == create_connection(f, db_name)
        tables == [i \in 1..Len(f1[db_name]) |-> f1[db_name][i].name]
    IN  IF tables = <<>> THEN Left(f1, Return(<<>>))
        ELSE Done(f1, Return(<<<<tables[1], table_info(f1[db_name], tables[1])>>>>))

\* Lines 330-356: the early return for a database without tables comes
\* before the conn.close() of line 354.
get_db_schema(f, db_name) ==
    LET f1 == create_connection(f, db_name)
        tables == [i \in 1..Len(f1[db_name]) |-> f1[db_name][i].name]
        db_schema == dict_from([i \in 1..Len(tables) |->
                                   <<tables[i], table_info(f1[db_name], tables[i])>>],
                               1, <<>>)
    IN  IF tables = <<>> THEN Left(f1, Return(<<>>))
        ELSE Done(f1, Return(db_schema))

\* run_sql_query without conn.commit() in the branch of a statement that
\* has no row set.
run_sql_query_uncommitted(f, db_name, sql_query) ==
    LET f1 == connect(f, db_name)
        name == Tail(db_name)
        e == execute(f1[name], sql_query)
        results == [r \in 1..Len(e.rows) |-> dict_from(zip(e.description, e.rows[r]), 1, <<>>)]
    IN  IF e.out.tag = "raise" THEN Done(f1, e.out)
        ELSE IF e.rowset THEN Done(close(f1, name, e), Return(results))
        ELSE Done(close(f1, name, e), Return(<<>>))

\* SQL_Connector.run_sql_query: db_name is the path of the file.  The
\* finally clause closes the connection on every path; only the branch of
\* a statement without a row set commits.
run_sql_query(f, db_name, sql_query) ==
    LET f1 == connect(f, db_name)
        name == Tail(db_name)
        e == execute(f1[name], sql_query)
        results == [r \in 1..Len(e.rows) |-> dict_from(zip(e.description, e.rows[r]), 1, <<>>)]
    IN  IF e.out.tag = "raise" THEN Done(f1, e.out)
        ELSE IF e.rowset THEN Done(close(f1, name, e), Return(results))
        ELSE Done(commit(f1, name, e), Return(<<>>))

----------------------------------------------------------------------------
(* One run of the script app.py.  A run works on a context: the session     *)
(* state and the files, plus what the run has drawn, called and shown so    *)
(* far.  `w` holds what the browser sent: the button clicked (or "") and    *)
(* the text the user left in the text areas drawn by the previous run.      *)

Truthy(x) == ~(x.t = "null") /\ ~(x.t = "str" /\ x.v = <<>>)

add_to_chat_history(ctx, role, text) ==
    [ctx EXCEPT !.chat_history = Append(@, [role |-> role, text |-> text])]

show(ctx, kind, text) == [ctx EXCEPT !.ui = Append(@, [kind |-> kind, text |-> text])]

\* A call of a storage helper: it is logged and leaves its files behind.
called(ctx, op, table_name, r) ==
    [ctx EXCEPT !.files = r.files, !.open = @ + r.open,
                !.calls = Append(@, [op |-> op, table |-> table_name, raised |-> r.out.exc])]

\* An exception no handler catches ends the run where it was raised.
escape(ctx, out) == [ctx EXCEPT !.escaped = out.exc]

\* st.text_area(label): the text the browser holds for the widget, "" for a
\* widget the previous run did not draw.
text_of(w, label) == IF label \in DOMAIN w.texts THEN w.texts[label] ELSE <<>>
text_area(ctx, w, label) ==
    [ctx EXCEPT !.drawn = @ \cup {label},
                !.texts = [l \in DOMAIN @ \cup {label} |->
                              IF l = label THEN text_of(w, label) ELSE @[l]]]

\* st.button(label) draws the button and is True in the run that the click
\* on it started.
button(ctx, label) == [ctx EXCEPT !.drawn = @ \cup {label}]
clicked(w, label) == w.clicked = label

NoDatabaseSelected(ctx) ==
    add_to_chat_history(
        show(ctx, "error",
             <<"No database selected. Please select a database first using /select_DB.">>),
        "assistant", <<"Error: No database selected.">>)

NoTableName(ctx, command) ==
    add_to_chat_history(
        show(ctx, "error", <<"Please specify the table name after ", command, ".">>),
        "assistant", <<"Error: No table name provided.">>)

NoDatabaseName(ctx, command) ==
    add_to_chat_history(
        show(ctx, "error", <<"Please provide a database name after ", command, ".">>),
        "assistant", <<"Error: No database name provided.">>)

handle_list_dbs(ctx) ==
    LET dbs == list_databases(ctx.files)
        c1 == [ctx EXCEPT !.calls = Append(@, [op |-> "list_databases", table |-> <<>>,
                                               raised |-> ""])]
        c2 == IF dbs # {} THEN show(c1, "write", <<"databases">>)
              ELSE show(c1, "warning", <<"No databases found.">>)
    IN  add_to_chat_history(c2, "assistant", <<"Processed command: list_DBs">>)

handle_create_db(ctx, user_input) ==
    LET words == split(user_input)
        db_name == words[2]
        c1 == called(ctx, "create_new_database", <<>>, create_new_database(ctx.files, db_name))
        text == <<"Database '">> \o db_name \o <<"' created successfully.">>
    IN  IF Len(words) < 2 THEN NoDatabaseName(ctx, "/create_DB")
        ELSE add_to_chat_history(show(c1, "success", text), "assistant", text)

\* handle_select_db without the test against list_databases(): whatever name
\* is typed becomes the selection.
handle_select_db_unchecked(ctx, user_input) ==
    LET words == split(user_input)
        db_name == words[2]
        c1 == [ctx EXCEPT !.calls = Append(@, [op |-> "list_databases", table |-> <<>>,
                                               raised |-> ""])]
    IN  IF Len(words) < 2 THEN NoDatabaseName(ctx, "/select_DB")
        ELSE add_to_chat_history(
                 show([c1 EXCEPT !.selected_db = Str(db_name)], "success",
                      <<"Database '">> \o db_name \o <<"' selected.">>),
                 "assistant", <<"Database '">> \o db_name \o <<"' selected.">>)

handle_select_db(ctx, user_input) ==
    LET words == split(user_input)
        db_name == words[2]
        c1 == [ctx EXCEPT !.calls = Append(@, [op |-> "list_databases", table |-> <<>>,
                                               raised |-> ""])]
    IN  IF Len(words) < 2 THEN NoDatabaseName(ctx, "/select_DB")
        ELSE IF db_name \in list_databases(ctx.files)
            THEN add_to_chat_history(
                     show([c1 EXCEPT !.selected_db = Str(db_name)], "success",
                          <<"Database '">> \o db_name \o <<"' selected.">>),
                     "assistant", <<"Database '">> \o db_name \o <<"' selected.">>)
        ELSE add_to_chat_history(
                 show(c1, "error", <<"Database '">> \o db_name \o <<"' not found.">>),
                 "assistant", <<"Error: Database '">> \o db_name \o <<"' not found.">>)

\* handle_list_tables without the test of st.session_state.selected_db.
handle_list_tables_unguarded(ctx) ==
    LET db_name == ctx.selected_db.v
        r == list_tables(ctx.files, db_name)
        c1 == called(ctx, "list_tables", <<>>, r)
    IN  IF r.out.val # <<>>
            THEN add_to_chat_history(show(c1, "write", <<"tables">>), "assistant",
                                     <<"Tables in database '">> \o db_name \o <<"'">>)
        ELSE add_to_chat_history(
                 show(c1, "warning", <<"No tables found in the selected database.">>),
                 "assistant", <<"No tables found in database '">> \o db_name \o <<"'.">>)

handle_list_tables(ctx) ==
    LET db_name == ctx.selected_db.v
        r == list_tables(ctx.files, db_name)
        c1 == called(ctx, "list_tables", <<>>, r)
    IN  IF ~Truthy(ctx.selected_db) THEN NoDatabaseSelected(ctx)
        ELSE IF r.out.val # <<>>
            THEN add_to_chat_history(show(c1, "write", <<"tables">>), "assistant",
                                     <<"Tables in database '">> \o db_name \o <<"'">>)
        ELSE add_to_chat_history(
                 show(c1, "warning", <<"No tables found in the selected database.">>),
                 "assistant", <<"No tables found in database '">> \o db_name \o <<"'.">>)

CreateColumnsArea ==
    "Enter columns in the format: column_name data_type (e.g., 'name TEXT, age INTEGER')"
InsertColumnsArea == "Enter columns (comma-separated)"
InsertValuesArea == "Enter values (comma-separated)"
UpdateConditionArea == "Enter condition (e.g., 'name = Alice')"
UpdateDataArea == "Enter update data (e.g., 'age = 25')"
DeleteConditionArea == "Enter condition for deletion (e.g., 'name = Alice')"
TextAreas ==
    {CreateColumnsArea, InsertColumnsArea, InsertValuesArea, UpdateConditionArea,
     UpdateDataArea, DeleteConditionArea}
Buttons == {"Create Table", "Insert Record", "Update Record", "Delete Record"}

\* The dicts the handlers build hold str values.
str_values(d) == [j \in 1..Len(d) |-> <<d[j][1], Str(d[j][2])>>]

\* [tuple(piece.split(sep)) for piece in text.split(",")] with sep "=", and
\* [tuple(col.strip().split()) for col in text.split(",")] for the columns.
pairs_by_equals(text) ==
    LET pieces == split_on(text, ",")
    IN  [i \in 1..Len(pieces) |-> split_on(pieces[i], "=")]
pairs_by_blank(text) ==
    LET pieces == split_on(text, ",")
    IN  [i \in 1..Len(pieces) |-> split(strip(pieces[i]))]

handle_create_table(ctx, user_input, w) ==
    LET db_name == ctx.selected_db.v
        words == split(user_input)
        table_name == words[2]
        c1 == text_area(ctx, w, CreateColumnsArea)
        columns_dict == dict(pairs_by_blank(text_of(w, CreateColumnsArea)))
        c2 == button(c1, "Create Table")
        r == create_table(c2.files, db_name, table_name, columns_dict.val)
        c3 == called(c2, "create_table", table_name, r)
        text == <<"Table '">> \o table_name \o <<"' created successfully.">>
    IN  IF ~Truthy(ctx.selected_db) THEN NoDatabaseSelected(ctx)
        ELSE IF Len(words) < 2
            THEN add_to_chat_history(
                     show(ctx, "error", <<"Please provide a table name after /create_table.">>),
                     "assistant", <<"Error: No table name provided.">>)
        ELSE IF columns_dict.tag = "raise" THEN escape(c1, columns_dict)
        ELSE IF ~clicked(w, "Create Table") THEN c2
        ELSE IF r.out.tag = "raise" THEN escape(c3, r.out)
        ELSE add_to_chat_history(show(c3, "success", text), "assistant",
                                 text \o <<" in database '">> \o db_name \o <<"'.">>)

\* handle_insert_into without the test of the button: the record is inserted
\* as soon as the command is submitted.
handle_insert_into_unconfirmed(ctx, user_input, w) ==
    LET db_name == ctx.selected_db.v
        words == split(user_input)
        table_name == words[2]
        c1 == show(ctx, "subheader", <<"Insert into ">> \o table_name)
        c2 == button(text_area(text_area(c1, w, InsertColumnsArea), w, InsertValuesArea),
                     "Insert Record")
        data == dict(zip(split_on(text_of(w, InsertColumnsArea), ","),
                         split_on(text_of(w, InsertValuesArea), ",")))
        r == insert_record(c2.files, db_name, table_name, str_values(data.val))
        c3 == called(c2, "insert_record", table_name, r)
    IN  IF ~Truthy(ctx.selected_db) THEN NoDatabaseSelected(ctx)
        ELSE IF Len(words) < 2 THEN NoTableName(ctx, "/insert_into")
        ELSE IF r.out.tag = "raise" THEN escape(c3, r.out)
        ELSE add_to_chat_history(
                 show(c3, "success", <<"Record inserted into ">> \o table_name),
                 "assistant", <<"Record inserted into table '">> \o table_name
                                  \o <<"' in database '">> \o db_name \o <<"'.">>)

handle_insert_into(ctx, user_input, w) ==
    LET db_name == ctx.selected_db.v
        words == split(user_input)
        table_name == words[2]
        c1 == show(ctx, "subheader", <<"Insert into ">> \o table_name)
        c2 == button(text_area(text_area(c1, w, InsertColumnsArea), w, InsertValuesArea),
                     "Insert Record")
        data == dict(zip(split_on(text_of(w, InsertColumnsArea), ","),
                         split_on(text_of(w, InsertValuesArea), ",")))
        r == insert_record(c2.files, db_name, table_name, str_values(data.val))
        c3 == called(c2, "insert_record", table_name, r)
    IN  IF ~Truthy(ctx.selected_db) THEN NoDatabaseSelected(ctx)
        ELSE IF Len(words) < 2 THEN NoTableName(ctx, "/insert_into")
        ELSE IF ~clicked(w, "Insert Record") THEN c2
        ELSE IF r.out.tag = "raise" THEN escape(c3, r.out)
        ELSE add_to_chat_history(
                 show(c3, "success", <<"Record inserted into ">> \o table_name),
                 "assistant", <<"Record inserted into table '">> \o table_name
                                  \o <<"' in database '">> \o db_name \o <<"'.">>)

handle_read_records(ctx, user_input) ==
    LET db_name == ctx.selected_db.v
        words == split(user_input)
        table_name == words[2]
        c1 == show(ctx, "subheader", <<"Records in ">> \o table_name)
        r == read_records(c1.files, db_name, table_name)
        c2 == called(c1, "read_records", table_name, r)
    IN  IF ~Truthy(ctx.selected_db) THEN NoDatabaseSelected(ctx)
        ELSE IF Len(words) < 2 THEN NoTableName(ctx, "/read_records")
        ELSE IF r.out.tag = "raise" THEN escape(c2, r.out)
        ELSE add_to_chat_history(
                 show(c2, "dataframe", <<"records">>),
                 "assistant", <<"Read records from table '">> \o table_name
                                  \o <<"' in database '">> \o db_name \o <<"'.">>)

handle_update_table(ctx, user_input, w) ==
    LET db_name == ctx.selected_db.v
        words == split(user_input)
        table_name == words[2]
        c1 == show(ctx, "subheader", <<"Update ">> \o table_name)
        c2 == button(text_area(text_area(c1, w, UpdateConditionArea), w, UpdateDataArea),
                     "Update Record")
        condition_dict == dict(pairs_by_equals(text_of(w, UpdateConditionArea)))
        update_dict == dict(pairs_by_equals(text_of(w, UpdateDataArea)))
        r == update_record(c2.files, db_name, table_name, str_values(update_dict.val),
                           str_values(condition_dict.val))
        c3 == called(c2, "update_record", table_name, r)
    IN  IF ~Truthy(ctx.selected_db) THEN NoDatabaseSelected(ctx)
        ELSE IF Len(words) < 2 THEN NoTableName(ctx, "/update_table")
        ELSE IF ~clicked(w, "Update Record") THEN c2
        ELSE IF condition_dict.tag = "raise" THEN escape(c2, condition_dict)
        ELSE IF update_dict.tag = "raise" THEN escape(c2, update_dict)
        ELSE IF r.out.tag = "raise" THEN escape(c3, r.out)
        ELSE add_to_chat_history(
                 show(c3, "success", <<"Record updated in ">> \o table_name),
                 "assistant", <<"Record updated in table '">> \o table_name
                                  \o <<"' in database '">> \o db_name \o <<"'.">>)

handle_delete_from(ctx, user_input, w) ==
    LET db_name == ctx.selected_db.v
        words == split(user_input)
        table_name == words[2]
        c1 == show(ctx, "subheader", <<"Delete from ">> \o table_name)
        c2 == button(text_area(c1, w, DeleteConditionArea), "Delete Record")
        condition_dict == dict(pairs_by_equals(text_of(w, DeleteConditionArea)))
        r == delete_record(c2.files, db_name, table_name, str_values(condition_dict.val))
        c3 == called(c2, "delete_record", table_name, r)
    IN  IF ~Truthy(ctx.selected_db) THEN NoDatabaseSelected(ctx)
        ELSE IF Len(words) < 2 THEN NoTableName(ctx, "/delete_from")
        ELSE IF ~clicked(w, "Delete Record") THEN c2
        ELSE IF condition_dict.tag = "raise" THEN escape(c2, condition_dict)
        ELSE IF r.out.tag = "raise" THEN escape(c3, r.out)
        ELSE add_to_chat_history(
                 show(c3, "success", <<"Record deleted from ">> \o table_name),
                 "assistant", <<"Record deleted from table '">> \o table_name
                                  \o <<"' in database '">> \o db_name \o <<"'.">>)

\* Lines 221-247: the routing, in the order written; a text that starts with
\* none of the commands reaches no branch.
route(ctx, user_input, w) ==
    IF startswith(user_input, <<"/list_DBs">>) THEN handle_list_dbs(ctx)
    ELSE IF startswith(user_input, <<"/create_DB">>) THEN handle_create_db(ctx, user_input)
    ELSE IF startswith(user_input, <<"/select_DB">>) THEN handle_select_db(ctx, user_input)
    ELSE IF startswith(user_input, <<"/list_tables">>) THEN handle_list_tables(ctx)
    ELSE IF startswith(user_input, <<"/create_table">>)
        THEN handle_create_table(ctx, user_input, w)
    ELSE IF startswith(user_input, <<"/insert_into">>)
        THEN handle_insert_into(ctx, user_input, w)
    ELSE IF startswith(user_input, <<"/read_records">>) THEN handle_read_records(ctx, user_input)
    ELSE IF startswith(user_input, <<"/update_table">>)
        THEN handle_update_table(ctx, user_input, w)
    ELSE IF startswith(user_input, <<"/delete_from">>)
        THEN handle_delete_from(ctx, user_input, w)
    ELSE ctx

\* Lines 212-250: st.chat_input gives None unless this run was started by a
\* chat submission.
\* Line 250, which an uncaught exception does not reach.
processed(ctx) ==
    IF ctx.escaped # "" THEN ctx
    ELSE add_to_chat_history(ctx, "assistant", <<"Processed command or query.">>)

script(ctx, user_input, w) ==
    IF ~Truthy(user_input) THEN ctx
    ELSE processed(route(add_to_chat_history(show(ctx, "chat_message", user_input.v),
                                             "user", user_input.v),
                         user_input.v, w))

----------------------------------------------------------------------------
(* The inputs of the application *)

MaxHistory == 8
MaxOpen == 1

DbNames == {<<"a", ".db">>, <<"b">>}
TableNames == {<<"users">>}
DbCommands == {"/create_DB", "/select_DB"}
TableCommands ==
    {"/create_table", "/insert_into", "/read_records", "/update_table", "/delete_from"}
Query == <<"Show", " ", "all", " ", "users">>

ChatInputs ==
    {<<"/list_DBs">>, <<"/list_tables">>, Query}
        \cup {<<c>> : c \in DbCommands \cup TableCommands}
        \cup {<<c, " ">> \o n : c \in DbCommands, n \in DbNames}
        \cup {<<c, " ">> \o n : c \in TableCommands, n \in TableNames}

\* What a user may leave in each text area.
TextsFor(label) ==
    CASE label = CreateColumnsArea -> {<<>>, <<"name", " ", "TEXT">>, <<"name">>}
      [] label = InsertColumnsArea -> {<<>>, <<"name">>}
      [] label = InsertValuesArea -> {<<>>, <<"Bob">>}
      [] label = UpdateConditionArea -> {<<>>, <<"name", "=", "Alice">>, <<"name">>}
      [] label = UpdateDataArea -> {<<>>, <<"name", "=", "Bob">>}
      [] label = DeleteConditionArea -> {<<>>, <<"name", "=", "Alice">>, <<"name", " ", "=", " ", "Alice">>}

\* The data/ directory a session may find: empty, or holding one database.
UsersTable ==
    [name |-> <<"users">>, columns |-> <<<<<<"name">>, <<"TEXT">>>>>>,
     rows |-> <<[c \in {<<"name">>} |-> Str(<<"Alice">>)]>>]
EmptyDir == [n \in {} |-> EmptyDatabase]
OneDatabase == [n \in {<<"a", ".db">>} |-> <<UsersTable>>]
InitialFiles == {EmptyDir, OneDatabase}

NoCall ==
    [op |-> "", db |-> <<>>, table |-> <<>>, columns |-> <<>>, data |-> <<>>,
     condition |-> <<>>, sql |-> Statement("", <<>>), out |-> NoResult]

NoWidgets == [drawn |-> {}, texts |-> [l \in {} |-> <<>>]]
NoRun ==
    [user_input |-> None, clicked |-> "", selected_before |-> None, calls |-> <<>>,
     ui |-> <<>>, said |-> <<>>, escaped |-> "", ran |-> FALSE]

----------------------------------------------------------------------------
(* The state machine *)

InitExtractIdle ==
    /\ nl_query = EmptyQuery
    /\ gemini = CHOOSE b \in ServiceErrors : b.exc = "ServiceUnavailable"
    /\ returned = NoResult
    /\ service_calls = 0

\* Lines 7-13 of app.py, on whatever data/ holds.
InitApp ==
    /\ selected_db = None
    /\ chat_history = <<>>
    /\ files \in InitialFiles
    /\ widgets = NoWidgets
    /\ last_run = NoRun

InitStorageIdle ==
    /\ connections = 0
    /\ storage_call = NoCall

Init == InitApp /\ InitExtractIdle /\ InitStorageIdle

\* One run of the script on the events the browser sent.
ScriptRun(user_input, click, texts) ==
    \E end \in {script([selected_db |-> selected_db, chat_history |-> chat_history,
                        files |-> files, drawn |-> {}, texts |-> [l \in {} |-> <<>>],
                        calls |-> <<>>, ui |-> <<>>, escaped |-> "", open |-> 0],
                       user_input, [clicked |-> click, texts |-> texts])} :
        /\ Len(end.chat_history) <= MaxHistory
        /\ connections + end.open <= MaxOpen
        /\ connections' = connections + end.open
        /\ selected_db' = end.selected_db
        /\ chat_history' = end.chat_history
        /\ files' = end.files
        /\ widgets' = [drawn |-> end.drawn, texts |-> end.texts]
        /\ last_run' = [user_input |-> user_input, clicked |-> click,
                        selected_before |-> selected_db, calls |-> end.calls, ui |-> end.ui,
                        said |-> SubSeq(end.chat_history, Len(chat_history) + 1,
                                        Len(end.chat_history)),
                        escaped |-> end.escaped, ran |-> TRUE]
        /\ UNCHANGED <<extract_vars, storage_call>>

DrawnButtons == widgets.drawn \cap Buttons
DrawnAreas == widgets.drawn \cap TextAreas
\* The texts the user may have left in the text areas that are on the page.
EditedTexts == {x \in [DrawnAreas -> UNION {TextsFor(l) : l \in TextAreas}] :
                   \A l \in DrawnAreas : x[l] \in TextsFor(l)}

\* The user submits a text in the chat input.
ChatSubmit ==
    \E u \in ChatInputs : ScriptRun(Str(u), "", widgets.texts)

\* The user clicks a button that is on the page, or leaves a text area after
\* editing it: the script runs again, without a chat submission.
WidgetEvent ==
    \/ \E b \in DrawnButtons : ScriptRun(None, b, widgets.texts)
    \/ \E x \in EditedTexts : x # widgets.texts /\ ScriptRun(None, "", x)

\* The user edits, clicks and submits before the script has started again:
\* one run receives the chat text together with the pending widget events.
PendingEventsSubmit ==
    \E u \in ChatInputs : \E b \in DrawnButtons \cup {""} : \E x \in EditedTexts :
        /\ (b # "" \/ x # widgets.texts)
        /\ ScriptRun(Str(u), b, x)

\* A connection nothing refers to any more is closed when the interpreter
\* frees it, at a moment the program does not choose.
Finalize ==
    /\ connections > 0
    /\ connections' = connections - 1
    /\ UNCHANGED <<extract_vars, app_vars, storage_call>>

Next == ChatSubmit \/ WidgetEvent \/ PendingEventsSubmit \/ Finalize

Spec == Init /\ [][Next]_vars

\* The extractor called on its own, for every query and service behaviour.
InitExtract ==
    /\ nl_query \in Queries
    /\ gemini \in ServiceBehaviours
    /\ returned = NoResult
    /\ service_calls = 0
    /\ selected_db = None
    /\ chat_history = <<>>
    /\ files = EmptyDir
    /\ widgets = NoWidgets
    /\ last_run = NoRun
    /\ InitStorageIdle

preprocess_query_with_gemini ==
    /\ returned = NoResult
    /\ returned' = preprocess(nl_query, gemini)
    /\ service_calls' = service_calls + 1
    /\ UNCHANGED <<nl_query, gemini>>
    /\ UNCHANGED <<app_vars, connections, storage_call>>

NextExtract == preprocess_query_with_gemini

SpecExtract == InitExtract /\ [][NextExtract]_vars

----------------------------------------------------------------------------
(* The storage helpers called on their own, the way the tests call them *)

MaxRows == 2

StorageDb == <<"a", ".db">>
StorageTables == {<<"users">>, <<"orders">>}

Alice == Str(<<"Alice">>)
Bob == Str(<<"Bob">>)
NameColumn == <<<<"name">>, <<"TEXT">>>>
AgeColumn == <<<<"age">>, <<"INTEGER">>>>

ColumnDicts == {<<NameColumn, AgeColumn>>, <<>>}
DataDicts ==
    {<<<<<<"name">>, Bob>>>>,
     <<<<<<"name">>, Alice>>, <<<<"age">>, Str(<<"3">>)>>>>,
     <<>>}
UpdateDicts == {<<<<<<"age">>, Num(<<"7">>)>>>>}
ConditionDicts ==
    {<<<<<<"name">>, Alice>>>>,
     <<<<<<"name">>, Alice>>, <<<<"age">>, Num(<<"3">>)>>>>,
     <<>>}

\* SELECT * FROM users; SELECT * FROM users WHERE name = 'Bob';
\* INSERT INTO users (name) VALUES ('Bob'), also with RETURNING *;
\* DELETE FROM users WHERE name = 'Alice' RETURNING *; DELETE FROM users;
\* CREATE TABLE orders (name TEXT, age INTEGER); and a text that is no SQL.
Statements ==
    {SelectAll(<<"users">>),
     [SelectAll(<<"users">>) EXCEPT !.where_clause = TRUE, !.where = <<<<<<"name">>, Bob>>>>],
     InsertInto(<<"users">>, <<<<<<"name">>, Bob>>>>),
     [InsertInto(<<"users">>, <<<<<<"name">>, Bob>>>>) EXCEPT !.returning = TRUE],
     [DeleteWhere(<<"users">>, <<<<<<"name">>, Alice>>>>) EXCEPT !.returning = TRUE],
     Statement("DELETE", <<"users">>),
     [Statement("CREATE TABLE", <<"orders">>) EXCEPT !.columns = <<NameColumn, AgeColumn>>],
     Statement("SELEC", <<>>)}

\* A database that create_table and insert_record have filled.
TwoUsers ==
    [n \in {StorageDb} |->
        <<[name |-> <<"users">>, columns |-> <<NameColumn, AgeColumn>>,
           rows |-> <<[c \in {<<"name">>, <<"age">>} |->
                          IF c = <<"name">> THEN Alice ELSE Num(<<"3">>)],
                      [c \in {<<"name">>, <<"age">>} |->
                          IF c = <<"name">> THEN Bob ELSE NULL]>>]>>]

InitSql ==
    /\ selected_db = None
    /\ chat_history = <<>>
    /\ files \in InitialFiles \cup {TwoUsers}
    /\ widgets = NoWidgets
    /\ last_run = NoRun
    /\ InitExtractIdle
    /\ InitStorageIdle

RECURSIVE count_rows(_, _)
count_rows(db, i) == IF i > Len(db) THEN 0 ELSE Len(db[i].rows) + count_rows(db, i + 1)
WithinRows(f) == \A n \in DOMAIN f : count_rows(f[n], 1) <= MaxRows

\* A helper was called with the arguments of `call` and ended as r.
StorageCall(call, r) ==
    /\ connections + r.open <= MaxOpen
    /\ WithinRows(r.files)
    /\ files' = r.files
    /\ connections' = connections + r.open
    /\ storage_call' = [call EXCEPT !.out = r.out]
    /\ UNCHANGED <<extract_vars, selected_db, chat_history, widgets, last_run>>

ListDatabases ==
    \E r \in {Done(files, Return(list_databases(files)))} :
        StorageCall([NoCall EXCEPT !.op = "list_databases"], r)

DatabaseExists ==
    \E n \in DbNames : \E r \in {Done(files, Return(database_exists(files, n)))} :
        StorageCall([NoCall EXCEPT !.op = "database_exists", !.db = n], r)

CreateNewDatabase ==
    \E n \in DbNames : \E r \in {create_new_database(files, n)} :
        StorageCall([NoCall EXCEPT !.op = "create_new_database", !.db = n], r)

ListTables ==
    \E r \in {list_tables(files, StorageDb)} :
        StorageCall([NoCall EXCEPT !.op = "list_tables", !.db = StorageDb], r)

GetDbSchema ==
    \E r \in {get_db_schema(files, StorageDb)} :
        StorageCall([NoCall EXCEPT !.op = "get_db_schema", !.db = StorageDb], r)

GetTableStructure ==
    \E t \in StorageTables : \E r \in {get_table_structure(files, StorageDb, t)} :
        StorageCall([NoCall EXCEPT !.op = "get_table_structure", !.db = StorageDb,
                                   !.table = t], r)

CreateTable ==
    \E t \in StorageTables : \E c \in ColumnDicts :
        \E r \in {create_table(files, StorageDb, t, c)} :
            StorageCall([NoCall EXCEPT !.op = "create_table", !.db = StorageDb, !.table = t,
                                       !.columns = c], r)

InsertRecord ==
    \E t \in StorageTables : \E d \in DataDicts :
        \E r \in {insert_record(files, StorageDb, t, d)} :
            StorageCall([NoCall EXCEPT !.op = "insert_record", !.db = StorageDb, !.table = t,
                                       !.data = d], r)

UpdateRecord ==
    \E t \in StorageTables : \E d \in UpdateDicts : \E c \in ConditionDicts :
        \E r \in {update_record(files, StorageDb, t, d, c)} :
            StorageCall([NoCall EXCEPT !.op = "update_record", !.db = StorageDb, !.table = t,
                                       !.data = d, !.condition = c], r)

DeleteRecord ==
    \E t \in StorageTables : \E c \in ConditionDicts :
        \E r \in {delete_record(files, StorageDb, t, c)} :
            StorageCall([NoCall EXCEPT !.op = "delete_record", !.db = StorageDb, !.table = t,
                                       !.condition = c], r)

ReadRecords ==
    \E t \in StorageTables : \E r \in {read_records(files, StorageDb, t)} :
        StorageCall([NoCall EXCEPT !.op = "read_records", !.db = StorageDb, !.table = t], r)

ReadSqlQuery ==
    \E q \in Statements : \E r \in {read_sql_query(files, StorageDb, q)} :
        StorageCall([NoCall EXCEPT !.op = "read_sql_query", !.db = StorageDb, !.sql = q], r)

\* run_sql_query is given the path of the file, data/a.db.
RunSqlQuery ==
    \E q \in Statements : \E r \in {run_sql_query(files, join_data(StorageDb), q)} :
        StorageCall([NoCall EXCEPT !.op = "run_sql_query", !.db = StorageDb, !.sql = q], r)

\* The helpers of database_handler.py that build their own statement.
NextStorage ==
    \/ ListDatabases \/ DatabaseExists \/ CreateNewDatabase
    \/ ListTables \/ GetDbSchema \/ GetTableStructure
    \/ CreateTable \/ InsertRecord \/ UpdateRecord \/ DeleteRecord \/ ReadRecords
    \/ Finalize

SpecStorage == Init /\ [][NextStorage]_vars

\* The two helpers that execute a statement given to them.
NextSql == ReadSqlQuery \/ RunSqlQuery \/ Finalize

SpecSql == InitSql /\ [][NextSql]_vars

----------------------------------------------------------------------------
(* Properties of the application (specification Spec) *)

Commands == {"/list_DBs", "/list_tables"} \cup DbCommands \cup TableCommands
IsCommand(s) == \E c \in Commands : startswith(s, <<c>>)
\* A natural-language request: a submitted text that is no command.
IsRequest(u) == Truthy(u) /\ ~IsCommand(u.v)

Calls(op) == {i \in 1..Len(last_run.calls) : last_run.calls[i].op = op}
Said(role, text) ==
    \E i \in 1..Len(last_run.said) : last_run.said[i] = [role |-> role, text |-> text]

\* The statement each confirmation button stands for.
OpOf(b) ==
    CASE b = "Create Table" -> "create_table"
      [] b = "Insert Record" -> "insert_record"
      [] b = "Update Record" -> "update_record"
      [] b = "Delete Record" -> "delete_record"

C2_ConfirmationExecutes ==
    (last_run.ran /\ last_run.clicked \in Buttons /\ Truthy(last_run.selected_before))
        => Calls(OpOf(last_run.clicked)) # {}

\* C3: a natural-language request submitted while no database is selected
\* ends in the no-database failure and calls neither the service nor the
\* storage helpers.
C3_NoDatabaseSelected ==
    (last_run.ran /\ IsRequest(last_run.user_input) /\ last_run.selected_before = None)
        => /\ Said("assistant", <<"Error: No database selected.">>)
           /\ last_run.calls = <<>>

\* C4: a natural-language request submitted while a database is selected
\* starts intent extraction for its text.
C4_RequestReachesExtraction ==
    (last_run.ran /\ IsRequest(last_run.user_input) /\ Truthy(last_run.selected_before))
        => Calls("preprocess_query_with_gemini") # {}

Submitted == last_run.ran /\ Truthy(last_run.user_input)
\* The run reported a failure to the user with st.error.
FailureShown == \E i \in 1..Len(last_run.ui) : last_run.ui[i].kind = "error"
ProcessedSaid == Said("assistant", <<"Processed command or query.">>)

\* C11: a submitted request whose handler reported a failure is not also
\* reported as processed: the user is told one outcome, a success or a
\* failure.
C11_SingleOutcome ==
    Submitted => ~(FailureShown /\ ProcessedSaid)

\* C19: no exception escapes the handler of a submitted request.
C19_NoExceptionEscapes ==
    Submitted => last_run.escaped = ""

SelectOf(n) == <<"/select_DB", " ">> \o n
\* C20: selected_db starts as None, and a step changes it only when the run
\* handled /select_DB n for a name n that list_databases() returned at that
\* moment, and then to n; so a /select_DB that fails leaves it as it was.
C20_SelectedDbListed ==
    [][selected_db' # selected_db =>
          \E n \in list_databases(files) :
              /\ last_run'.user_input = Str(SelectOf(n))
              /\ selected_db' = Str(n)]_vars

\* C20 witness: with a.db selected, /select_DB b is answered "not found" and
\* a.db is still the selection.
C20_Witness ==
    /\ last_run.user_input = Str(SelectOf(<<"b">>))
    /\ last_run.selected_before = Str(<<"a", ".db">>)
    /\ Said("assistant", <<"Error: Database '", "b", "' not found.">>)
    /\ selected_db = Str(<<"a", ".db">>)

CreateOf(n) == <<"/create_DB", " ">> \o n
CreatedSaid(n) == Said("assistant", <<"Database '">> \o n \o <<"' created successfully.">>)

\* C21: for every database name n, when the last run handled /create_DB n
\* and reported success, a run that handles /select_DB n next reports the
\* selection and sets selected_db to n.
C21_CreatedCanBeSelected ==
    [][\A n \in DbNames :
           (/\ last_run.user_input = Str(CreateOf(n))
            /\ CreatedSaid(n)
            /\ last_run' # last_run
            /\ last_run'.user_input = Str(SelectOf(n)))
               => /\ selected_db' = Str(n)
                  /\ \E i \in 1..Len(last_run'.said) :
                         last_run'.said[i] =
                             [role |-> "assistant",
                              text |-> <<"Database '">> \o n \o <<"' selected.">>]]_vars

NoDatabaseCommands == TableCommands \cup {"/list_tables"}
NoDatabaseError ==
    [kind |-> "error",
     text |-> <<"No database selected. Please select a database first using /select_DB.">>]
\* A step that is a run for a submitted table command.
TableCommandRun ==
    /\ last_run' # last_run
    /\ Truthy(last_run'.user_input)
    /\ \E c \in NoDatabaseCommands : startswith(last_run'.user_input.v, <<c>>)

----------------------------------------------------------------------------
(* Properties of the storage helpers (specifications SpecStorage, SpecSql) *)

\* The call a step made, and what the database held when it was made.  A
\* step that closes a leftover connection is no call.
Did(op) == storage_call'.op = op /\ connections' >= connections
Succeeded == storage_call'.out.tag = "return"
Before == IF storage_call'.db \in DOMAIN files THEN files[storage_call'.db] ELSE EmptyDatabase
After == files'[storage_call'.db]
OtherFilesKept ==
    /\ DOMAIN files' = DOMAIN files \cup {storage_call'.db}
    /\ \A n \in DOMAIN files : n # storage_call'.db => files'[n] = files[n]

\* C12: a call of run_sql_query ends in one of three ways, decided by what
\* the engine does with the statement: an error is raised to the caller; a
\* row set is returned as the list of its rows in the engine's order, each a
\* mapping from column name to value; anything else is committed and
\* answered with the empty list.
C12_ThreeOutcomes ==
    [][Did("run_sql_query") =>
          LET e == execute(Before, storage_call'.sql)
              out == storage_call'.out
          IN  /\ e.out.tag = "raise" => (out = e.out /\ After = Before)
              /\ (e.out.tag = "return" /\ e.rowset) =>
                     /\ out.tag = "return"
                     /\ Len(out.val) = Len(e.rows)
                     /\ \A r \in 1..Len(e.rows) :
                            out.val[r] = [c \in 1..Len(e.description) |->
                                             <<e.description[c], e.rows[r][c]>>]
              /\ (e.out.tag = "return" /\ ~e.rowset) =>
                     (out = Return(<<>>) /\ After = e.db)]_vars

\* C12 witness: SELECT * FROM users answered with the two rows of the table,
\* in order, as mappings.
C12_Witness ==
    /\ storage_call.op = "run_sql_query"
    /\ storage_call.sql = SelectAll(<<"users">>)
    /\ storage_call.out =
           Return(<< <<<<<<"name">>, Alice>>, <<<<"age">>, Num(<<"3">>)>>>>,
                     <<<<<<"name">>, Bob>>, <<<<"age">>, NULL>>>> >>)

\* C13: no connection is open once a helper has returned or raised.
C13_NoOpenConnection ==
    connections = 0

\* C14: a statement that read_sql_query or run_sql_query executed without
\* error has left its change in the file.
C14_CommitIfMutating ==
    [][((Did("run_sql_query") \/ Did("read_sql_query")) /\ Succeeded) =>
          After = execute(Before, storage_call'.sql).db]_vars

\* The entry of a schema for a table, if it has one.
SchemaEntries(schema, table_name) == {j \in 1..Len(schema) : schema[j][1] = table_name}

TableBefore == Before[table_index(Before, storage_call'.table)]
TableAfter == After[table_index(After, storage_call'.table)]
OtherTablesKept ==
    /\ Len(After) = Len(Before)
    /\ \A i \in 1..Len(Before) : Before[i].name # storage_call'.table => After[i] = Before[i]
    /\ OtherFilesKept

IsDigitText(v) == v # <<>> /\ \A i \in 1..Len(v) : v[i] \in {"1", "2", "3", "7"}

\* The value data gives for column c, as given and as the column stores it.
Given(d, c) == d[CHOOSE j \in 1..Len(d) : d[j][1] = c][2]
Stored(tbl, d, c) ==
    LET type == tbl.columns[CHOOSE i \in 1..Len(tbl.columns) : tbl.columns[i][1] = c][2]
        x == Given(d, c)
    IN  IF type = <<"INTEGER">> /\ x.t = "str" /\ IsDigitText(x.v) THEN Num(x.v)
        ELSE IF type = <<"TEXT">> /\ x.t = "num" THEN Str(x.v)
        ELSE x
Named(d) == {d[j][1] : j \in 1..Len(d)}

\* What read_records returns, what create_table keeps and how the number of
\* rows moves: shared by the two statements of C16.
C16_ReadCountAndCreate ==
    /\ (Did("read_records") /\ Succeeded) =>
           /\ storage_call'.out.val =
                  [r \in 1..Len(TableBefore.rows) |->
                      [c \in 1..Len(TableBefore.columns) |->
                          TableBefore.rows[r][TableBefore.columns[c][1]]]]
           /\ files' = files
    /\ (Did("create_table") /\ has_table(Before, storage_call'.table)) =>
           After = Before
    /\ (Did("insert_record") /\ Succeeded) =>
           Len(TableAfter.rows) = Len(TableBefore.rows) + 1
    /\ (Did("insert_record") /\ ~Succeeded) => After = Before
    /\ (Did("update_record") /\ has_table(Before, storage_call'.table)) =>
           Len(TableAfter.rows) = Len(TableBefore.rows)

Satisfies(tbl, row, condition) ==
    \A c \in Named(condition) :
        c \in DOMAIN row /\ row[c] # NULL /\ row[c] = Stored(tbl, condition, c)

\* C17: update_record sets the given columns on the rows that satisfy the
\* whole condition and delete_record removes those rows; the other rows
\* keep their values and their order, and the other tables and databases
\* are untouched; a call that raises changes nothing.
C17_ExactlyMatchingRows ==
    [][/\ (Did("update_record") /\ Succeeded) =>
              /\ Len(TableAfter.rows) = Len(TableBefore.rows)
              /\ \A r \in 1..Len(TableBefore.rows) :
                     IF Satisfies(TableBefore, TableBefore.rows[r], storage_call'.condition)
                     THEN \A c \in column_names(TableBefore) :
                              TableAfter.rows[r][c] =
                                  IF c \in Named(storage_call'.data)
                                  THEN Stored(TableBefore, storage_call'.data, c)
                                  ELSE TableBefore.rows[r][c]
                     ELSE TableAfter.rows[r] = TableBefore.rows[r]
              /\ TableAfter.columns = TableBefore.columns
              /\ OtherTablesKept
       /\ (Did("delete_record") /\ Succeeded) =>
              /\ TableAfter.rows =
                     SelectSeq(TableBefore.rows,
                               LAMBDA row : ~Satisfies(TableBefore, row, storage_call'.condition))
              /\ TableAfter.columns = TableBefore.columns
              /\ OtherTablesKept
       /\ ((Did("update_record") \/ Did("delete_record")) /\ ~Succeeded) =>
              (After = Before /\ OtherFilesKept)]_vars

\* C17 witness: an update of age where name = Alice has changed the row of
\* Alice and left the row of Bob, in a database that has a second table.
C17_Witness ==
    /\ storage_call.op = "update_record"
    /\ storage_call.table = <<"users">>
    /\ storage_call.out.tag = "return"
    /\ Len(files[StorageDb]) = 2
    /\ LET users == files[StorageDb][table_index(files[StorageDb], <<"users">>)]
       IN  /\ Len(users.rows) = 2
           /\ \E r \in 1..2 : users.rows[r][<<"name">>] = Alice
                                /\ users.rows[r][<<"age">>] = Num(<<"7">>)
           /\ \E r \in 1..2 : users.rows[r][<<"name">>] = Bob
                                /\ users.rows[r][<<"age">>] = NULL

\* C18: after create_new_database(n) the database n exists and is listed by
\* list_databases(), and a database that existed keeps its content.
C18_CreatedIsListed ==
    [][Did("create_new_database") =>
          /\ database_exists(files', storage_call'.db)
          /\ storage_call'.db \in list_databases(files')
          /\ storage_call'.db \in DOMAIN files => files' = files]_vars

----------------------------------------------------------------------------
(* Properties of the extractor (specification SpecExtract) *)

Called == returned # NoResult
Responded == gemini.kind = "respond"
IsFailure(r) == r.tag = "return" /\ r.val.t = "obj" /\ "error" \in DOMAIN r.val.v

\* The kind of an outcome.  A failure is the dict {"error": message}: its
\* kind is what the message says.
ResultKind(r) ==
    IF r.tag # "return" THEN "raised"
    ELSE IF ~IsFailure(r) THEN "success"
    ELSE IF r.val.v["error"] = Str(UnstructuredMsg) THEN "UnstructuredResponse"
    ELSE IF r.val.v["error"].t = "str" /\ startswith(r.val.v["error"].v, InvalidEntityPrefix)
        THEN "InvalidEntity"
    ELSE "ExtractionServiceError"

DecodesAsRecord(text) == text.kind = "json" /\ text.value.t = "obj"

IsDigitString(x) ==
    x.t = "str" /\ Len(x.v) > 0 /\ \A i \in 1..Len(x.v) : x.v[i] \in DigitChars
\* The entries of entities: what iterating the value of the field yields.
EntityItems(rec) ==
    IF "entities" \in DOMAIN rec.v /\ iter(rec.v["entities"]).tag = "return"
    THEN iter(rec.v["entities"]).val.v ELSE <<>>
HasDigitOnlyEntity(rec) ==
    \E i \in 1..Len(EntityItems(rec)) : IsDigitString(EntityItems(rec)[i])

IsStringList(x) == x.t = "list" /\ \A i \in 1..Len(x.v) : x.v[i].t = "str"
\* The six fields with their declared shapes.
IsStructuredIntent(x) ==
    /\ x.t = "obj"
    /\ Fields \subseteq DOMAIN x.v
    /\ x.v["intent"].t = "str"
    /\ IsStringList(x.v["entities"])
    /\ IsStringList(x.v["conditions"])
    /\ IsStringList(x.v["aggregations"])
    /\ x.v["time_range"].t \in {"str", "null"}
    /\ x.v["limit"].t \in {"num", "null"}

\* C6: a response text that does not decode as a record is answered with
\* the UnstructuredResponse failure, returned and not raised.
C6_UndecodableIsUnstructured ==
    (Called /\ Responded /\ ~DecodesAsRecord(gemini.text))
        => ResultKind(returned) = "UnstructuredResponse"

\* C7: a decoded record is answered with InvalidEntity exactly when one of
\* the entries of its entities consists of digits only.
C7_DigitEntityIsInvalid ==
    (Called /\ Responded /\ DecodesAsRecord(gemini.text))
        => (HasDigitOnlyEntity(gemini.text.value) <=> ResultKind(returned) = "InvalidEntity")

\* C8: ExtractionServiceError is returned exactly when the call of the
\* service failed, and then it carries the message of that failure.
C8_ServiceErrorIffCallFailed ==
    Called =>
        /\ ResultKind(returned) = "ExtractionServiceError" <=> gemini.kind = "raise"
        /\ gemini.kind = "raise" => returned.val.v["error"] = Str(gemini.msg)

\* C9: whatever is returned as a success is a complete StructuredIntent.
C9_SuccessIsComplete ==
    (Called /\ ResultKind(returned) = "success") => IsStructuredIntent(returned.val)

\* C10: the empty query is rejected before the service is called, with a
\* failure that is not UnstructuredResponse.
C10_EmptyQueryRejected ==
    (Called /\ nl_query = EmptyQuery)
        => /\ service_calls = 0
           /\ IsFailure(returned)
           /\ ResultKind(returned) # "UnstructuredResponse"

====
